---- MODULE Spec2Model ----
(***************************************************************************)
(* A model of onlydust_star_tracker/main.py: the Streamlit script that     *)
(* loads the contributor CSV, enriches it, joins the persisted contact     *)
(* state, filters, aggregates and writes the contact state back.           *)
(*                                                                         *)
(* Conventions.  A text cell is a sequence of one-character strings.  A    *)
(* pandas cell that may be missing is <<>> (NaN / None) or <<v>>.  One     *)
(* run of the script (main) is one action: Streamlit runs the script top   *)
(* to bottom once per user interaction.  The widget framework, the chart   *)
(* library and pycountry are outside the repository; st.data_editor is     *)
(* modelled by what it returns (the table with the user's edit applied)    *)
(* and by the session-state key it registers.                              *)
(***************************************************************************)
EXTENDS Integers, Sequences, FiniteSets, TLC

(* ------------------------------ bounds --------------------------------- *)
\* rows of the input CSV
MaxRows == 2
\* script runs in one session
MaxCycles == 3
\* rows of the joined table (the join can multiply rows)
MaxDfRows == 4
\* dense range of pr_count values tried against the bands
MaxPr == 7

VARIABLES
    source_exists,           \* config["data"]["source_path"] exists on disk
    csv,                     \* rows of the source CSV, as read_csv returns them
    config,                  \* config["developer_categories"]: band -> max_prs
    contacts_dir,            \* data/generated exists
    contacts_file,           \* data/generated/contacts.csv: [exists, rows]
    session_state,           \* widget keys held by st.session_state
    selected_languages,      \* the four multiselect widgets' values
    selected_categories,
    selected_projects,
    selected_dev_categories,
    rendered,                \* the last run reached the end of main
    error_shown,             \* the last run called st.error
    df,                      \* locals of the last run of main
    filtered_df,
    edited_table,
    category_counts,
    category_investment,
    total_investment,
    steps,                   \* the statements the last run executed, in order
    fs_ops,                  \* its operations on the contact-state storage
    interaction,             \* what triggered the last run, and what it found:
                             \* [kind, edit, source (file found), dir (before)]
    file_at_start,           \* contacts_file when the last run started
    cycles,                  \* script runs so far
    pr_in, cat_out,          \* inputs and results of get_developer_category
    eco_in, eco_out          \* input and result of the is_starknet_exclusive lambda

vars == << source_exists, csv, config, contacts_dir, contacts_file, session_state,
           selected_languages, selected_categories, selected_projects,
           selected_dev_categories, rendered, error_shown, df, filtered_df,
           edited_table, category_counts, category_investment, total_investment,
           steps, fs_ops, interaction, file_at_start, cycles,
           pr_in, cat_out, eco_in, eco_out >>

(* ------------------------------ values --------------------------------- *)
None == <<>>
Some(v) == <<v>>

\* Series.fillna(d): a missing cell becomes d
fillna(cell, d) == IF cell = None THEN Some(d) ELSE cell

Starknet == <<"S","t","a","r","k","n","e","t">>
Rust == <<"R","u","s","t">>
Go == <<"G","o">>
DeFi == <<"D","e","F","i">>
Infra == <<"I","n","f","r","a">>
ProjX == <<"X">>
ProjY == <<"Y">>

RECURSIVE Join(_, _)
\* sep.join(parts)
Join(parts, sep) ==
    IF parts = <<>> THEN <<>>
    ELSE IF Len(parts) = 1 THEN parts[1]
    ELSE parts[1] \o sep \o Join(Tail(parts), sep)

RECURSIVE SumSeq(_)
SumSeq(s) == IF s = <<>> THEN 0 ELSE Head(s) + SumSeq(Tail(s))

Range(s) == { s[i] : i \in DOMAIN s }

(* ------------------------- str operations ------------------------------ *)
\* needle in s (Python substring test), scanning left to right
RECURSIVE str_contains(_, _)
str_contains(needle, s) ==
    IF Len(s) < Len(needle) THEN FALSE
    ELSE IF SubSeq(s, 1, Len(needle)) = needle THEN TRUE
    ELSE str_contains(needle, Tail(s))

RECURSIVE str_split(_, _)
\* s.split(sep) for a one-character sep: always at least one piece
str_split(s, sep) ==
    IF \A i \in DOMAIN s : s[i] # sep THEN << s >>
    ELSE LET k == CHOOSE i \in DOMAIN s :
                     s[i] = sep /\ \A j \in 1..(i-1) : s[j] # sep
         IN  << SubSeq(s, 1, k - 1) >> \o str_split(SubSeq(s, k + 1, Len(s)), sep)

RECURSIVE str_lstrip(_)
str_lstrip(s) == IF s # <<>> /\ Head(s) = " " THEN str_lstrip(Tail(s)) ELSE s

RECURSIVE str_rstrip(_)
str_rstrip(s) ==
    IF s # <<>> /\ s[Len(s)] = " " THEN str_rstrip(SubSeq(s, 1, Len(s) - 1)) ELSE s

str_strip(s) == str_rstrip(str_lstrip(s))

(* ----------------------- load_and_process_data ------------------------- *)
PyNone == "None"

\* variant: the chain has no final else and falls off the end past the last band
GetDeveloperCategoryFallsOff(categories, pr_count) ==
    IF pr_count <= categories.beginner THEN "Beginner"
    ELSE IF pr_count <= categories.rising_star THEN "Rising Star"
    ELSE IF pr_count <= categories.established THEN "Established Developer"
    ELSE IF pr_count <= categories.senior THEN "Senior Contributor"
    ELSE PyNone

\* variant: the band maxima taken as exclusive
GetDeveloperCategoryExclusive(categories, pr_count) ==
    IF pr_count < categories.beginner THEN "Beginner"
    ELSE IF pr_count < categories.rising_star THEN "Rising Star"
    ELSE IF pr_count < categories.established THEN "Established Developer"
    ELSE IF pr_count < categories.senior THEN "Senior Contributor"
    ELSE "Elite Developer"

\* categories[band] stands for config["developer_categories"][band]["max_prs"]
get_developer_category(categories, pr_count) ==
    IF pr_count <= categories.beginner THEN "Beginner"
    ELSE IF pr_count <= categories.rising_star THEN "Rising Star"
    ELSE IF pr_count <= categories.established THEN "Established Developer"
    ELSE IF pr_count <= categories.senior THEN "Senior Contributor"
    ELSE "Elite Developer"

\* variant: the comma test left out
IsStarknetExclusiveNoCommaTest(x) ==
    x # None /\ str_contains(Starknet, x[1])

\* lambda x: True if isinstance(x, str) and "Starknet" in x and "," not in x else False
\* (a missing cell is a float NaN, not a str)
is_starknet_exclusive(x) ==
    x # None /\ str_contains(Starknet, x[1]) /\ ~ str_contains(<<",">>, x[1])

\* .fillna("").apply(lambda x: [t.strip() for t in str(x).split(",") if t.strip()])
parse_list(cell) ==
    LET pieces == str_split(fillna(cell, <<>>)[1], ",")
        kept == SelectSeq(pieces, LAMBDA t : str_strip(t) # <<>>)
    IN  [ i \in 1..Len(kept) |-> str_strip(kept[i]) ]

\* lines 31-94 for one row
EnrichRow(categories, r) ==
    LET reward == fillna(r.total_rewarded_usd_amount, 0)[1]
        prs == fillna(r.pr_count, 0)[1]
    IN  [ contributor |-> r.contributor,
          total_rewarded_usd_amount |-> reward,
          pr_count |-> prs,
          cost_per_pr |-> IF prs > 0 THEN [num |-> reward, den |-> prs]
                                      ELSE [num |-> reward, den |-> 1],
          developer_category |-> get_developer_category(categories, prs),
          is_starknet_exclusive |-> is_starknet_exclusive(r.ecosystems),
          languages |-> parse_list(r.languages),
          projects |-> parse_list(r.projects),
          categories |-> parse_list(r.categories) ]

(* ---------------------------- CSV text --------------------------------- *)
\* the strings read_csv takes for a missing value (among its defaults)
NaValues == { "", "NA", "NaN" }

\* to_csv of one cell of a bool/object column
bool_to_text(cell) == IF cell = None THEN "" ELSE IF cell[1] THEN "True" ELSE "False"
\* to_csv of one cell of a str/object column
str_to_text(cell) == IF cell = None THEN "" ELSE cell[1]

\* read_csv of one cell
text_to_bool(t) == IF t \in NaValues THEN None ELSE Some(t = "True")
text_to_str(t) == IF t \in NaValues THEN None ELSE Some(t)

\* DataFrame[["Developer","Contact","Contacted"]].to_csv(contacts_file, index=False)
to_csv(table) ==
    [ exists |-> TRUE,
      rows |-> [ i \in 1..Len(table) |->
                   [ Developer |-> str_to_text(table[i].Developer),
                     Contact |-> bool_to_text(table[i].Contact),
                     Contacted |-> bool_to_text(table[i].Contacted) ] ] ]

\* pd.read_csv(contacts_file), or the empty frame when the file is absent
read_contacts(file) ==
    IF file.exists
    THEN [ i \in 1..Len(file.rows) |->
             [ Developer |-> text_to_str(file.rows[i].Developer),
               Contact |-> text_to_bool(file.rows[i].Contact),
               Contacted |-> text_to_bool(file.rows[i].Contacted) ] ]
    ELSE <<>>

RECURSIVE merge_left(_, _)
\* df.merge(contacts_df, how="left", left_on="contributor", right_on="Developer"):
\* left order kept, one output row per matching right row, one NaN-filled row
\* when none matches
merge_left(left, right) ==
    IF left = <<>> THEN <<>>
    ELSE LET l == Head(left)
             m == SelectSeq(right, LAMBDA c : c.Developer = Some(l.contributor))
         IN  ( IF m = <<>>
               THEN << l @@ [ Developer |-> None, Contact |-> None, Contacted |-> None ] >>
               ELSE [ i \in 1..Len(m) |-> l @@ m[i] ] )
             \o merge_left(Tail(left), right)

NoFrame == <<>>

\* variant: the contacts directory is made before the source file is looked for
LoadAndProcessDataMkdirFirst(categories, exists, data, dir, file) ==
    IF ~ exists
    THEN [ stopped |-> TRUE, error |-> TRUE, df |-> NoFrame, dir |-> TRUE,
           steps |-> << "mkdir", "exists", "st.error", "st.stop" >>,
           fs_ops |-> << "mkdir" >> ]
    ELSE LET enriched == [ i \in 1..Len(data) |-> EnrichRow(categories, data[i]) ]
             merged == merge_left(enriched, read_contacts(file))
         IN  [ stopped |-> FALSE, error |-> FALSE,
               df |-> [ i \in 1..Len(merged) |->
                          [ merged[i] EXCEPT !.Contact = fillna(@, FALSE),
                                             !.Contacted = fillna(@, FALSE) ] ],
               dir |-> TRUE,
               steps |-> << "mkdir", "exists", "read_csv", "enrich", "merge" >>,
               fs_ops |-> << "mkdir" >> \o (IF file.exists THEN << "read" >> ELSE <<>>) ]

\* lines 21-111
load_and_process_data(categories, exists, data, dir, file) ==
    IF ~ exists
    THEN [ stopped |-> TRUE, error |-> TRUE, df |-> NoFrame, dir |-> dir,
           steps |-> << "exists", "st.error", "st.stop" >>,
           fs_ops |-> <<>> ]
    ELSE LET enriched == [ i \in 1..Len(data) |-> EnrichRow(categories, data[i]) ]
             merged == merge_left(enriched, read_contacts(file))
         IN  [ stopped |-> FALSE, error |-> FALSE,
               df |-> [ i \in 1..Len(merged) |->
                          [ merged[i] EXCEPT !.Contact = fillna(@, FALSE),
                                             !.Contacted = fillna(@, FALSE) ] ],
               dir |-> TRUE,
               steps |-> << "exists", "read_csv", "enrich", "mkdir", "merge" >>,
               fs_ops |-> << "mkdir" >> \o (IF file.exists THEN << "read" >> ELSE <<>>) ]

\* lines 114-119: the (Developer, Contact, Contacted) view save_contacts writes
save_contacts(table) ==
    to_csv([ i \in 1..Len(table) |->
               [ Developer |-> Some(table[i].contributor),
                 Contact |-> table[i].Contact,
                 Contacted |-> table[i].Contacted ] ])

(* ------------------------------- main ---------------------------------- *)
RECURSIVE SumOver(_, _)
\* the sum of f over the keys S
SumOver(f, S) ==
    IF S = {} THEN 0
    ELSE LET k == CHOOSE x \in S : TRUE IN f[k] + SumOver(f, S \ {k})

\* sorted(set([v for vs in df[col] for v in vs])): the options of a facet widget
all_languages(table) == UNION { Range(table[i].languages) : i \in DOMAIN table }
all_categories(table) == UNION { Range(table[i].categories) : i \in DOMAIN table }
all_projects(table) == UNION { Range(table[i].projects) : i \in DOMAIN table }

\* any(v in values for v in selected)
any_in(selected, values) == \E v \in selected : v \in Range(values)

\* all(...) in place of any(...)
all_in(selected, values) == \A v \in selected : v \in Range(values)

\* variant: every selected value of a facet is required
ApplyFiltersAllWithinFacet(table, languages, categories, projects) ==
    LET f1 == IF languages # {}
              THEN SelectSeq(table, LAMBDA r : all_in(languages, r.languages))
              ELSE table
        f2 == IF categories # {}
              THEN SelectSeq(f1, LAMBDA r : all_in(categories, r.categories))
              ELSE f1
    IN  IF projects # {}
        THEN SelectSeq(f2, LAMBDA r : all_in(projects, r.projects))
        ELSE f2

\* lines 153-172
apply_filters(table, languages, categories, projects) ==
    LET f1 == IF languages # {}
              THEN SelectSeq(table, LAMBDA r : any_in(languages, r.languages))
              ELSE table
        f2 == IF categories # {}
              THEN SelectSeq(f1, LAMBDA r : any_in(categories, r.categories))
              ELSE f1
    IN  IF projects # {}
        THEN SelectSeq(f2, LAMBDA r : any_in(projects, r.projects))
        ELSE f2

\* Series.isna
isna(v) == v = PyNone

\* lines 202-203: filtered_df["developer_category"].value_counts() (missing
\* values are not counted)
value_counts(table) ==
    LET labels == { table[i].developer_category : i \in DOMAIN table }
    IN  [ c \in { l \in labels : ~ isna(l) } |->
            Cardinality({ i \in DOMAIN table : table[i].developer_category = c }) ]

\* line 262: the options of the developer-category widget
developer_categories(table) == { table[i].developer_category : i \in DOMAIN table }

\* lines 267-295: the columns shown, renamed, then the developer-category filter
developer_table(table, dev_categories) ==
    LET shown == [ i \in 1..Len(table) |->
                     [ Developer |-> Some(table[i].contributor),
                       Category |-> Some(table[i].developer_category),
                       TotalRewards |-> Some(table[i].total_rewarded_usd_amount),
                       PullRequests |-> Some(table[i].pr_count),
                       CostPerPR |-> Some(table[i].cost_per_pr),
                       Contact |-> table[i].Contact,
                       Contacted |-> table[i].Contacted ] ]
    IN  IF dev_categories # {}
        THEN SelectSeq(shown, LAMBDA r : r.Category[1] \in dev_categories)
        ELSE shown

(* the user's edit of the interactive table in one run *)
NoEdit == [ op |-> "none", pos |-> 0, col |-> "", name |-> "" ]
\* Developer names a user types into an added row: one of the CSV, one not
AddNames == { "a", "z" }

EditsOf(table) ==
    { [ op |-> "toggle", pos |-> i, col |-> c, name |-> "" ] :
          i \in DOMAIN table, c \in { "Contact", "Contacted" } }
    \cup { [ op |-> "delete", pos |-> i, col |-> "", name |-> "" ] : i \in DOMAIN table }
    \cup { [ op |-> "add", pos |-> 0, col |-> "", name |-> n ] : n \in AddNames }

\* line 298: st.data_editor(developer_table, num_rows="dynamic", key=...) returns
\* the table with the edit applied; an added row has only the cells the user filled
data_editor(table, e) ==
    CASE e.op = "toggle" ->
           IF e.col = "Contact"
           THEN [ table EXCEPT ![e.pos].Contact = Some(~ @[1]) ]
           ELSE [ table EXCEPT ![e.pos].Contacted = Some(~ @[1]) ]
      [] e.op = "delete" ->
           SubSeq(table, 1, e.pos - 1) \o SubSeq(table, e.pos + 1, Len(table))
      [] e.op = "add" ->
           Append(table, [ Developer |-> Some(e.name), Category |-> None,
                           TotalRewards |-> None, PullRequests |-> None,
                           CostPerPR |-> None, Contact |-> Some(TRUE),
                           Contacted |-> None ])
      [] OTHER -> table

EditorKey == "developer_table_editor"

\* a widget created with key= is held by st.session_state from that call on
register_widget(keys, key) == keys \cup { key }

\* line 306: if "developer_table_editor" in st.session_state
contacts_update_due(keys) == EditorKey \in keys

RECURSIVE explode(_)
\* filtered_df.explode("categories"): one row per list element, a row with an
\* empty list keeps one row whose category is missing
explode(table) ==
    IF table = <<>> THEN <<>>
    ELSE LET r == Head(table)
         IN  ( IF r.categories = <<>>
               THEN << [ categories |-> None,
                         total_rewarded_usd_amount |-> r.total_rewarded_usd_amount ] >>
               ELSE [ i \in 1..Len(r.categories) |->
                        [ categories |-> Some(r.categories[i]),
                          total_rewarded_usd_amount |-> r.total_rewarded_usd_amount ] ] )
             \o explode(Tail(table))

\* .groupby("categories").agg({"total_rewarded_usd_amount": "sum"}): rows whose
\* key is missing belong to no group
groupby_sum(rows) ==
    LET keys == { rows[i].categories[1] : i \in { j \in DOMAIN rows : rows[j].categories # None } }
    IN  [ c \in keys |->
            SumSeq([ i \in 1..Len(rows) |->
                       IF rows[i].categories = Some(c)
                       THEN rows[i].total_rewarded_usd_amount ELSE 0 ]) ]

\* variant: the grand total taken over the filtered rows, before exploding
TotalInvestmentBeforeExplode(table, sums) ==
    SumSeq([ i \in 1..Len(table) |-> table[i].total_rewarded_usd_amount ])

\* line 324: category_investment["total_rewarded_usd_amount"].sum()
total_investment_of(table, sums) == SumOver(sums, DOMAIN sums)

\* lines 318-327; percentage = sum / total * 100 is kept as the fraction num/den
category_investment_of(table) ==
    LET sums == groupby_sum(explode(table))
        total == total_investment_of(table, sums)
    IN  [ c \in DOMAIN sums |->
            [ total_rewarded_usd_amount |-> sums[c],
              percentage |-> [ num |-> sums[c] * 100, den |-> total ] ] ]

NoCounts == << >>

\* one run of main (lines 122-460), triggered by an interaction of the given kind
\* with the widget values the session holds for this run
Main(kind, languages, categories, projects, dev_categories) ==
    LET ld == load_and_process_data(config, source_exists, csv, contacts_dir, contacts_file)
    IN  /\ cycles < MaxCycles
        /\ cycles' = cycles + 1
        /\ file_at_start' = contacts_file
        /\ selected_languages' = languages
        /\ selected_categories' = categories
        /\ selected_projects' = projects
        /\ selected_dev_categories' = dev_categories
        /\ contacts_dir' = ld.dir
        /\ error_shown' = ld.error
        /\ df' = ld.df
        /\ IF ld.stopped
           THEN /\ rendered' = FALSE
                /\ filtered_df' = NoFrame
                /\ edited_table' = NoFrame
                /\ category_counts' = NoCounts
                /\ category_investment' = NoCounts
                /\ total_investment' = 0
                /\ steps' = << "load_config", "set_page_config" >> \o ld.steps
                /\ fs_ops' = ld.fs_ops
                /\ interaction' = [ kind |-> kind, edit |-> NoEdit,
                                     source |-> source_exists, dir |-> contacts_dir ]
                /\ UNCHANGED << contacts_file, session_state >>
           ELSE /\ Len(ld.df) <= MaxDfRows
                /\ LET filtered == apply_filters(ld.df, languages, categories, projects)
                       table == developer_table(filtered, dev_categories)
                   IN  \E e \in (IF kind = "edit" THEN EditsOf(table) ELSE { NoEdit }) :
                         LET edited == data_editor(table, e)
                             keys == register_widget(session_state, EditorKey)
                             due == contacts_update_due(keys)
                             sums == groupby_sum(explode(filtered))
                         IN  /\ rendered' = TRUE
                             /\ filtered_df' = filtered
                             /\ edited_table' = edited
                             /\ category_counts' = value_counts(filtered)
                             /\ category_investment' = category_investment_of(filtered)
                             /\ total_investment' = total_investment_of(filtered, sums)
                             /\ session_state' = keys
                             /\ contacts_file' = IF due THEN to_csv(edited) ELSE contacts_file
                             /\ fs_ops' = ld.fs_ops \o (IF due THEN << "write" >> ELSE <<>>)
                             /\ steps' = << "load_config", "set_page_config" >> \o ld.steps
                                         \o << "filters", "value_counts", "data_editor" >>
                                         \o (IF due THEN << "to_csv" >> ELSE <<>>)
                                         \o << "category_investment" >>
                             /\ interaction' = [ kind |-> kind, edit |-> e,
                                                  source |-> source_exists,
                                                  dir |-> contacts_dir ]
        /\ UNCHANGED << source_exists, csv, config, pr_in, cat_out, eco_in, eco_out >>

(* ----------------------------- interactions ---------------------------- *)
\* the page is opened or refreshed: the script runs with the widgets as they are
Rerun ==
    Main("render", selected_languages, selected_categories, selected_projects,
         selected_dev_categories)

\* the user changes one multiselect among the options the page shows
ChangeFilter ==
    /\ rendered
    /\ \/ \E s \in SUBSET all_languages(df) :
             /\ s # selected_languages
             /\ Main("filter", s, selected_categories, selected_projects,
                     selected_dev_categories)
       \/ \E s \in SUBSET all_categories(df) :
             /\ s # selected_categories
             /\ Main("filter", selected_languages, s, selected_projects,
                     selected_dev_categories)
       \/ \E s \in SUBSET all_projects(df) :
             /\ s # selected_projects
             /\ Main("filter", selected_languages, selected_categories, s,
                     selected_dev_categories)
       \/ \E s \in SUBSET developer_categories(filtered_df) :
             /\ s # selected_dev_categories
             /\ Main("filter", selected_languages, selected_categories,
                     selected_projects, s)

\* the user edits the interactive table
EditTable ==
    /\ rendered
    /\ Main("edit", selected_languages, selected_categories, selected_projects,
            selected_dev_categories)

\* outside the program: the source file is removed between runs
SourceFileRemoved ==
    /\ cycles < MaxCycles
    /\ source_exists
    /\ source_exists' = FALSE
    /\ UNCHANGED << csv, config, contacts_dir, contacts_file, session_state,
                    selected_languages, selected_categories, selected_projects,
                    selected_dev_categories, rendered, error_shown, df, filtered_df,
                    edited_table, category_counts, category_investment,
                    total_investment, steps, fs_ops, interaction, file_at_start,
                    cycles, pr_in, cat_out, eco_in, eco_out >>

(* ------------------------------- inputs -------------------------------- *)
\* the band maxima of the spec's example configuration
ExampleCategories == [ beginner |-> 5, rising_star |-> 20, established |-> 50, senior |-> 100 ]

Records ==
    { [ contributor |-> "a", total_rewarded_usd_amount |-> Some(500), pr_count |-> Some(10),
        ecosystems |-> Some(Starknet), languages |-> Some(Join(<< Rust, Go >>, <<",">>)),
        projects |-> Some(ProjX), categories |-> Some(DeFi) ],
      [ contributor |-> "b", total_rewarded_usd_amount |-> Some(200), pr_count |-> None,
        ecosystems |-> Some(Join(<< Starknet, <<"E","t","h">> >>, <<",">>)),
        languages |-> Some(Go), projects |-> None,
        categories |-> Some(Join(<< DeFi, <<" ">> \o Infra >>, <<",">>)) ],
      [ contributor |-> "a", total_rewarded_usd_amount |-> None, pr_count |-> Some(1000),
        ecosystems |-> None, languages |-> None,
        projects |-> Some(Join(<< ProjX, ProjY >>, <<",">>)),
        categories |-> Some(Infra \o <<",", " ">>) ] }

CsvFiles == UNION { [ 1..n -> Records ] : n \in 0..MaxRows }

NoFile == [ exists |-> FALSE, rows |-> <<>> ]

InitSession ==
    /\ source_exists = TRUE
    /\ contacts_dir = FALSE
    /\ contacts_file = NoFile
    /\ session_state = {}
    /\ selected_languages = {}
    /\ selected_categories = {}
    /\ selected_projects = {}
    /\ selected_dev_categories = {}
    /\ rendered = FALSE
    /\ error_shown = FALSE
    /\ df = NoFrame
    /\ filtered_df = NoFrame
    /\ edited_table = NoFrame
    /\ category_counts = NoCounts
    /\ category_investment = NoCounts
    /\ total_investment = 0
    /\ steps = <<>>
    /\ fs_ops = <<>>
    /\ interaction = [ kind |-> "none", edit |-> NoEdit, source |-> TRUE, dir |-> FALSE ]
    /\ file_at_start = NoFile
    /\ cycles = 0

Init ==
    /\ InitSession
    /\ csv \in CsvFiles
    /\ config = ExampleCategories
    /\ pr_in = << 0, 0 >>
    /\ cat_out = None
    /\ eco_in = None
    /\ eco_out = None

Next == Rerun \/ ChangeFilter \/ EditTable \/ SourceFileRemoved

Spec == Init /\ [][Next]_vars

(* ------------------- get_developer_category alone ---------------------- *)
Labels == << "Beginner", "Rising Star", "Established Developer",
             "Senior Contributor", "Elite Developer" >>

\* ascending band maxima
Configs ==
    { c \in [ beginner : {2, 5, 20}, rising_star : {5, 20, 50},
              established : {20, 50, 100}, senior : {50, 100} ] :
        c.beginner <= c.rising_star /\ c.rising_star <= c.established
        /\ c.established <= c.senior }

PrCounts == (0..MaxPr) \cup { 19, 20, 21, 50, 51, 100, 101, 1000 }

InitCat ==
    /\ InitSession
    /\ csv = <<>>
    /\ config \in Configs
    /\ pr_in \in PrCounts \X PrCounts
    /\ cat_out = None
    /\ eco_in = None
    /\ eco_out = None

\* line 55: df["pr_count"].apply(get_developer_category), on two values
Classify ==
    /\ cat_out = None
    /\ cat_out' = Some(<< get_developer_category(config, pr_in[1]),
                          get_developer_category(config, pr_in[2]) >>)
    /\ UNCHANGED << source_exists, csv, config, contacts_dir, contacts_file,
                    session_state, selected_languages, selected_categories,
                    selected_projects, selected_dev_categories, rendered,
                    error_shown, df, filtered_df, edited_table, category_counts,
                    category_investment, total_investment, steps, fs_ops,
                    interaction, file_at_start, cycles, pr_in, eco_in, eco_out >>

SpecCat == InitCat /\ [][Classify]_vars

(* -------------------- is_starknet_exclusive alone ---------------------- *)
Eth == <<"E","t","h">>

EcoInputs ==
    { None } \cup
    { Some(pre \o core \o sep \o suf) :
        pre \in { <<>>, <<" ">>, <<"x">> },
        core \in { Starknet, <<"s","t","a","r","k","n","e","t">>,
                   <<"S","t","a","r","k">>, Eth },
        sep \in { <<>>, <<",">>, <<" ">> },
        suf \in { <<>>, Eth, Starknet } }

InitEco ==
    /\ InitSession
    /\ csv = <<>>
    /\ config = ExampleCategories
    /\ pr_in = << 0, 0 >>
    /\ cat_out = None
    /\ eco_in \in EcoInputs
    /\ eco_out = None

\* lines 58-62: df["ecosystems"].apply(lambda ...), on one value
ApplyStarknetExclusive ==
    /\ eco_out = None
    /\ eco_out' = Some(is_starknet_exclusive(eco_in))
    /\ UNCHANGED << source_exists, csv, config, contacts_dir, contacts_file,
                    session_state, selected_languages, selected_categories,
                    selected_projects, selected_dev_categories, rendered,
                    error_shown, df, filtered_df, edited_table, category_counts,
                    category_investment, total_investment, steps, fs_ops,
                    interaction, file_at_start, cycles, pr_in, cat_out, eco_in >>

SpecEco == InitEco /\ [][ApplyStarknetExclusive]_vars

(* ------------------------------ claims --------------------------------- *)
RowPersisted(r) == \E j \in DOMAIN contacts_file.rows : contacts_file.rows[j] = r
KeyPersisted(r) ==
    \E j \in DOMAIN contacts_file.rows : contacts_file.rows[j].Developer = r.Developer

\* C1: a row of the persisted contact-state file disappears from it only when
\* the user's edit removed a row of the interactive table; a run with no edit
\* (first render, refresh, a change of facet or developer-category selections)
\* keeps every persisted row with its Contact/Contacted flags, and an edit that
\* toggles a flag or adds a row keeps every persisted Developer key.
C1_PersistedRowsSurviveThePipeline ==
    cycles > 0 =>
        \A i \in DOMAIN file_at_start.rows :
            \/ interaction.kind = "edit" /\ interaction.edit.op = "delete"
            \/ interaction.kind = "edit" /\ interaction.edit.op = "toggle"
               /\ KeyPersisted(file_at_start.rows[i])
            \/ RowPersisted(file_at_start.rows[i])

\* the enriched join result without the join's own key column
EnrichedView(table) ==
    [ i \in 1..Len(table) |->
        [ contributor |-> table[i].contributor,
          developer_category |-> table[i].developer_category,
          total_rewarded_usd_amount |-> table[i].total_rewarded_usd_amount,
          Contact |-> table[i].Contact,
          Contacted |-> table[i].Contacted ] ]

\* C2: writing the enriched table's (Developer, Contact, Contacted) triples to
\* the contact-state file and loading again from the same input records gives
\* the same enriched join result: the same rows with the same Contact and
\* Contacted values.
C2_ContactStateRoundTrip ==
    rendered =>
        EnrichedView(load_and_process_data(config, TRUE, csv, contacts_dir,
                                           save_contacts(df)).df)
        = EnrichedView(df)

FacetAllows(selected, values) == selected = {} \/ selected \cap Range(values) # {}

\* C3: the filtered table is exactly the rows of the enriched table that, for
\* every facet with a non-empty selection, list at least one selected value
\* (OR within a facet, AND across facets); an empty selection removes no row.
C3_FilterIsOrWithinAndAcross ==
    rendered =>
        /\ filtered_df =
             SelectSeq(df, LAMBDA r :
                 /\ FacetAllows(selected_languages, r.languages)
                 /\ FacetAllows(selected_categories, r.categories)
                 /\ FacetAllows(selected_projects, r.projects))
        /\ ( selected_languages = {} /\ selected_categories = {}
             /\ selected_projects = {} => filtered_df = df )

\* two languages selected (OR), a category selected as well (AND), and the
\* filter both keeps and removes rows
C3_Witness ==
    /\ rendered
    /\ Cardinality(selected_languages) = 2
    /\ selected_categories # {}
    /\ filtered_df # <<>>
    /\ Len(filtered_df) < Len(df)
    /\ \E i \in DOMAIN df : ~ FacetAllows(selected_categories, df[i].categories)
                            /\ FacetAllows(selected_languages, df[i].languages)

BandMax(c) == << c.beginner, c.rising_star, c.established, c.senior >>

Rank(label) == CHOOSE i \in DOMAIN Labels : Labels[i] = label

\* the first band whose inclusive maximum is >= p, the fifth label past them all
FirstBand(c, p) ==
    LET fits == { i \in 1..4 : BandMax(c)[i] >= p }
    IN  IF fits = {} THEN Labels[5]
        ELSE Labels[CHOOSE i \in fits : \A j \in fits : i <= j]

\* C4: for pr_count >= 0 and ascending band maxima, get_developer_category
\* returns exactly one of the five labels, the first band whose inclusive
\* maximum is >= pr_count and Elite Developer past all maxima; a larger pr_count
\* never maps to an earlier band; with maxima 5/20/50/100, 5 is Beginner, 6 is
\* Rising Star and 1000 is Elite Developer.
C4_CategoryIsFirstBandAndMonotonic ==
    cat_out # None =>
        /\ \A k \in 1..2 :
              /\ cat_out[1][k] \in Range(Labels)
              /\ cat_out[1][k] = FirstBand(config, pr_in[k])
              /\ config = ExampleCategories =>
                    /\ pr_in[k] = 5 => cat_out[1][k] = "Beginner"
                    /\ pr_in[k] = 6 => cat_out[1][k] = "Rising Star"
                    /\ pr_in[k] = 1000 => cat_out[1][k] = "Elite Developer"
        /\ pr_in[1] <= pr_in[2] => Rank(cat_out[1][1]) <= Rank(cat_out[1][2])

\* the example configuration classifying 5 and 6 into neighbouring bands
C4_Witness ==
    /\ cat_out = Some(<< "Beginner", "Rising Star" >>)
    /\ config = ExampleCategories
    /\ pr_in = << 5, 6 >>

\* C5 as written: is_starknet_exclusive is true if and only if the ecosystems
\* value is exactly the string "Starknet"; false for every other string and for
\* an absent value.
C5_TrueIffExactlyStarknet ==
    eco_out # None => ( eco_out[1] <=> eco_in = Some(Starknet) )

HasSubstring(s, needle) ==
    \E i \in 1..(Len(s) - Len(needle) + 1) : SubSeq(s, i, i + Len(needle) - 1) = needle

\* C5 amended: is_starknet_exclusive is true if and only if the ecosystems value
\* is a string that contains "Starknet" (case-sensitive) and contains no comma;
\* it is false for every other string and for an absent value.
C5_TrueIffContainsStarknetAndNoComma ==
    eco_out # None =>
        /\ eco_out[1] <=> /\ eco_in # None
                          /\ HasSubstring(eco_in[1], Starknet)
                          /\ \A i \in DOMAIN eco_in[1] : eco_in[1][i] # ","
        /\ eco_in = Some(Starknet) => eco_out[1]
        /\ eco_in = None => ~ eco_out[1]

\* a value that is not exactly "Starknet" and is classified exclusive
C5_Witness ==
    /\ eco_out = Some(TRUE)
    /\ eco_in # Some(Starknet)

AfterSourceCheck ==
    { "read_csv", "enrich", "mkdir", "merge", "filters", "value_counts",
      "data_editor", "to_csv", "category_investment" }

\* C6: when the source data file does not exist, the run reports an error and
\* halts: no enrichment, filtering or aggregation step runs afterwards, and the
\* contact-state storage is neither created, read nor written in that run.
C6_MissingSourceHalts ==
    ( cycles > 0 /\ ~ interaction.source ) =>
        /\ error_shown
        /\ ~ rendered
        /\ steps # <<>> /\ steps[Len(steps)] = "st.stop"
        /\ Range(steps) \cap AfterSourceCheck = {}
        /\ fs_ops = <<>>
        /\ contacts_dir = interaction.dir
        /\ contacts_file = file_at_start

\* the source file went missing after an earlier run had written contact state
C6_Witness ==
    /\ cycles > 1
    /\ ~ interaction.source
    /\ file_at_start.exists
    /\ file_at_start.rows # <<>>

PercentNumSum ==
    SumOver([ c \in DOMAIN category_investment |-> category_investment[c].percentage.num ],
            DOMAIN category_investment)

HasMultiCategoryReward ==
    \E i \in DOMAIN filtered_df :
        /\ Len(filtered_df[i].categories) > 1
        /\ filtered_df[i].total_rewarded_usd_amount > 0

\* C7 as written: with percentage = category_sum / grand_total * 100 and
\* grand_total the sum of the per-category sums after exploding, the percentages
\* sum to more than 100% on a filtered table with rewarded rows of several
\* categories.
C7_PercentagesExceedHundred ==
    ( rendered /\ HasMultiCategoryReward ) => PercentNumSum > 100 * total_investment

\* C7 amended: every percentage is its category sum over the post-explode grand
\* total, so whenever that total is positive the percentages sum to exactly
\* 100%, rows of several categories included.
C7_PercentagesSumToHundred ==
    ( rendered /\ total_investment > 0 ) =>
        /\ \A c \in DOMAIN category_investment :
              /\ category_investment[c].percentage.den = total_investment
              /\ category_investment[c].percentage.num
                   = 100 * category_investment[c].total_rewarded_usd_amount
        /\ PercentNumSum = 100 * total_investment

\* a rewarded row of several categories inflates the post-explode grand total
\* above the filtered rows' own total
C7_Witness ==
    /\ rendered
    /\ HasMultiCategoryReward
    /\ total_investment >
         SumSeq([ i \in 1..Len(filtered_df) |-> filtered_df[i].total_rewarded_usd_amount ])

\* C8: the per-developer_category counts of the category distribution sum to
\* the number of rows of the filtered table.
C8_CategoryCountsSumToRows ==
    rendered => SumOver(category_counts, DOMAIN category_counts) = Len(filtered_df)

\* a filtered table of several rows in two developer categories, one past all
\* band maxima
C8_Witness ==
    /\ rendered
    /\ Len(filtered_df) >= 2
    /\ Cardinality(DOMAIN category_counts) >= 2
    /\ "Elite Developer" \in DOMAIN category_counts

\* C9: the contact-state file is rewritten at most once per run, and only in a
\* run in which the user edited the interactive table: a run with no edit
\* (first render, or a change of filter selections only) leaves the persisted
\* rows as they were.
C9_FileRewrittenOnlyOnEdit ==
    cycles > 0 =>
        /\ Len(SelectSeq(fs_ops, LAMBDA o : o = "write")) <= 1
        /\ interaction.kind # "edit" => contacts_file.rows = file_at_start.rows

\* C10: after any sequence of runs over the same CSV the enriched table has
\* exactly one row per input record, also with repeated contributor identifiers
\* in the input or repeated Developer keys in the contact file.
C10_OneRowPerInputRecord ==
    rendered =>
        /\ Len(df) = Len(csv)
        /\ \A i \in DOMAIN df : df[i].contributor = csv[i].contributor

====
